---------------------------- MODULE Spec2Model ----------------------------
(***************************************************************************)
(* A model of the retrieval engine of the Placement Archive AI service     *)
(* (src/ai-service/rag_pipeline.py, main.py, database.py, config.py).      *)
(*                                                                         *)
(* Text is a sequence of characters, so that len(), slices and rfind count *)
(* what Python counts.                                                     *)
(* The service runs on one asyncio event loop: the code between two awaits *)
(* is one atomic action, and the actions of different requests interleave  *)
(* at the awaits.                                                          *)
(***************************************************************************)
EXTENDS Integers, Sequences, FiniteSets, TLC

(***************************************************************************)
(* Bounds of the model.                                                    *)
(***************************************************************************)
\* The request slots, and the versions a record of the source of truth takes.
MaxTasks == 3
MaxVer == 2
\* The events of a behaviour: requests (a request for a rebuild counts
\* twice), starts of the process, errors of the embedding model, the database
\* and the disk.
MaxEvents == 3

\* The settings CHUNK_SIZE and CHUNK_OVERLAP (config.py) are read from the
\* environment; the model runs a deployment configured with small values, so
\* that short documents reach the windowed path of the chunker.
CHUNK_SIZE == 44
CHUNK_OVERLAP == 5

(***************************************************************************)
(* Settings (config.py) and literals of the source.                        *)
(***************************************************************************)
SIMILARITY_THRESHOLD == 0
EMBEDDING_DIMENSION == 384
SnippetLen == 500

(***************************************************************************)
(* Python values.                                                          *)
(***************************************************************************)
\* None where a text is expected: a value that is no text (its one element
\* is not a character).
None == <<"None">>
\* str(None)
NoneText == <<"N", "o", "n", "e">>
\* {v} inside an f-string, v a text or None.
Str(v) == IF v = None THEN NoneText ELSE v
\* None where an integer is expected (a NULL column).
NoneInt == -1

Truthy(s) == s # None /\ s # <<>>
TruthyInt(n) == n # NoneInt /\ n # 0

Min(a, b) == IF a < b THEN a ELSE b
Max(a, b) == IF a > b THEN a ELSE b

Digits == <<"0", "1", "2", "3", "4", "5", "6", "7", "8", "9">>

\* str(n) for an int n.
RECURSIVE IntToStr(_)
IntToStr(n) ==
    IF n < 0 THEN <<"-">> \o IntToStr(0 - n)
    ELSE IF n < 10 THEN <<Digits[n + 1]>>
    ELSE IntToStr(n \div 10) \o <<Digits[(n % 10) + 1]>>

IsDigit(c) == \E i \in 1..10 : Digits[i] = c
DigitVal(c) == (CHOOSE i \in 1..10 : Digits[i] = c) - 1

\* The value of a non-empty text of digits.
RECURSIVE DigitsToInt(_)
DigitsToInt(s) ==
    IF Len(s) = 1 THEN DigitVal(s[1])
    ELSE 10 * DigitsToInt(SubSeq(s, 1, Len(s) - 1)) + DigitVal(s[Len(s)])

\* str(v) inside an f-string, v an int or None.
FmtInt(n) == IF n = NoneInt THEN NoneText ELSE IntToStr(n)

\* The position a slice bound i denotes in a text of length n: a negative
\* bound counts from the end, and every bound is clipped to 0..n.
SliceBound(i, n) == IF i < 0 THEN Max(n + i, 0) ELSE Min(i, n)

\* s[a:b] of Python.
Slice(s, a, b) == SubSeq(s, SliceBound(a, Len(s)) + 1, SliceBound(b, Len(s)))

(***************************************************************************)
(* Text processing.                                                        *)
(***************************************************************************)
IsSpace(c) == c \in {" ", "\n", "\t"}
UpperCase == {"A", "C", "D", "G", "N", "Q", "R", "T", "U", "Y"}
LowerCase == {"a", "b", "c", "d", "e", "f", "g", "h", "i", "k", "l", "m", "n", "o",
              "p", "q", "r", "s", "t", "u", "w", "x", "y"}
\* \w
IsWordChar(c) == c \in UpperCase \/ c \in LowerCase \/ IsDigit(c) \/ c = "_"
IsKept(c) == IsWordChar(c) \/ IsSpace(c) \/ c \in {".", ",", "!", "?", "-"}

RECURSIVE LStrip(_)
LStrip(s) == IF s # <<>> /\ IsSpace(Head(s)) THEN LStrip(Tail(s)) ELSE s

RECURSIVE RStrip(_)
RStrip(s) ==
    IF s # <<>> /\ IsSpace(s[Len(s)]) THEN RStrip(SubSeq(s, 1, Len(s) - 1)) ELSE s

\* str.strip()
Strip(s) == RStrip(LStrip(s))

\* int(k) of a text: surrounding whitespace is dropped, then comes an
\* optional sign, then digits, which single underscores may separate.
Unsigned(s) ==
    LET body == Strip(s)
    IN  IF body # <<>> /\ Head(body) \in {"+", "-"} THEN Tail(body) ELSE body

IsNegative(s) == Strip(s) # <<>> /\ Head(Strip(s)) = "-"

IsDigitOrUnderscore(c) == IsDigit(c) \/ c = "_"

\* int(k) succeeds.
IsIntText(s) ==
    LET u == Unsigned(s) IN
    /\ u # <<>>
    /\ IsDigit(u[1]) /\ IsDigit(u[Len(u)])
    /\ \A i \in 1..Len(u) : IsDigitOrUnderscore(u[i])
    /\ \A i \in 1..(Len(u) - 1) : ~(u[i] = "_" /\ u[i + 1] = "_")

\* int(k), where it succeeds.
StrToInt(s) ==
    LET n == DigitsToInt(SelectSeq(Unsigned(s), IsDigit))
    IN  IF IsNegative(s) THEN 0 - n ELSE n

\* re.sub(r'\s+', ' ', text)
RECURSIVE CollapseSpaces(_)
CollapseSpaces(s) ==
    IF s = <<>> THEN <<>>
    ELSE IF IsSpace(Head(s)) THEN <<" ">> \o CollapseSpaces(LStrip(Tail(s)))
    ELSE <<Head(s)>> \o CollapseSpaces(Tail(s))

\* re.sub(r'[^\w\s.,!?-]', '', text)
RemoveSpecial(s) == SelectSeq(s, IsKept)

_preprocess_text(text) ==
    IF ~Truthy(text) THEN <<>>
    ELSE Strip(RemoveSpecial(CollapseSpaces(text)))

\* "\n".join(parts)
RECURSIVE Join(_)
Join(parts) ==
    IF parts = <<>> THEN <<>>
    ELSE IF Len(parts) = 1 THEN parts[1]
    ELSE parts[1] \o <<"\n">> \o Join(Tail(parts))

RoundText(r) ==
    <<"R", "o", "u", "n", "d", " ">> \o FmtInt(r.round_number) \o <<":", " ">> \o Str(r.round_type)
        \o (IF Truthy(r.description)
            THEN <<" ", "-", " ">> \o _preprocess_text(r.description) ELSE <<>>)

RECURSIVE RoundParts(_)
RoundParts(rounds) ==
    IF rounds = <<>> THEN <<>>
    ELSE <<RoundText(Head(rounds))>> \o RoundParts(Tail(rounds))

QuestionParts(q) ==
    LET q_text == _preprocess_text(q.question_text) IN
    IF q_text = <<>> THEN <<>>
    ELSE <<(<<"Q", "u", "e", "s", "t", "i", "o", "n", " ", "(">> \o Str(q.question_type) \o <<",", " ">> \o Str(q.topic)
              \o <<")", ":", " ">> \o q_text)>>
         \o (IF Truthy(q.answer_approach)
             THEN <<(<<"A", "p", "p", "r", "o", "a", "c", "h", ":", " ">> \o _preprocess_text(q.answer_approach))>>
             ELSE <<>>)

RECURSIVE QuestionsParts(_)
QuestionsParts(questions) ==
    IF questions = <<>> THEN <<>>
    ELSE QuestionParts(Head(questions)) \o QuestionsParts(Tail(questions))

\* The parts of the document, in order.  The rows of database.py carry every
\* key, so the defaults of .get() ('Unknown', '?') are never taken and a NULL
\* column is formatted as "None".
DocumentParts(e) ==
    <<(<<"C", "o", "m", "p", "a", "n", "y", ":", " ">> \o Str(e.company_name)),
      (<<"R", "o", "l", "e", ":", " ">> \o Str(e.role)),
      (<<"Y", "e", "a", "r", ":", " ">> \o FmtInt(e.interview_year))>>
    \o (IF Truthy(e.offer_status) THEN <<(<<"R", "e", "s", "u", "l", "t", ":", " ">> \o e.offer_status)>> ELSE <<>>)
    \o (IF TruthyInt(e.difficulty_level)
        THEN <<(<<"D", "i", "f", "f", "i", "c", "u", "l", "t", "y", ":", " ">> \o FmtInt(e.difficulty_level) \o <<"/", "5">>)>> ELSE <<>>)
    \o (IF Truthy(e.tips) THEN <<(<<"T", "i", "p", "s", ":", " ">> \o _preprocess_text(e.tips))>> ELSE <<>>)
    \o RoundParts(e.rounds)
    \o QuestionsParts(e.questions)

_create_experience_document(e) == Join(DocumentParts(e))

\* document.rfind('.', start, end): the 0-based position of the last '.' in
\* document[start:end], or -1.
RFind(document, start, end) ==
    LET hits == {p \in SliceBound(start, Len(document))..(SliceBound(end, Len(document)) - 1) :
                    document[p + 1] = "."}
    IN  IF hits = {} THEN -1 ELSE CHOOSE p \in hits : \A o \in hits : o <= p

\* The right edge of the window that starts at start (lines 160-166), for
\* settings.CHUNK_SIZE = size.
WindowEndOfMutant(document, start, size) ==
    LET end == start + size
        last_period == RFind(document, start, end)
    IN  IF end < Len(document) /\ last_period >= start + (size \div 2)
        THEN last_period + 1
        ELSE end

WindowEndOf(document, start, size) ==
    LET end == start + size
        last_period == RFind(document, start, end)
    IN  IF end < Len(document) /\ last_period > start + (size \div 2)
        THEN last_period + 1
        ELSE end

WindowEnd(document, start) == WindowEndOf(document, start, CHUNK_SIZE)

\* if chunk_text: (line 169)
KeepsChunkMutant(chunk_text) == TRUE
KeepsChunk(chunk_text) == chunk_text # <<>>

\* The while loop of _chunk_document from position start on; the chunk_index of
\* a chunk is its place in the list.
RECURSIVE ChunkLoop(_, _)
ChunkLoop(document, start) ==
    IF ~(start < Len(document)) THEN <<>>
    ELSE LET end == WindowEnd(document, start)
             chunk_text == Strip(Slice(document, start, end))
         IN  (IF KeepsChunk(chunk_text) THEN <<chunk_text>> ELSE <<>>)
                 \o ChunkLoop(document, end - CHUNK_OVERLAP)

\* The texts of the chunks of a document, in order.
_chunk_document(document) ==
    IF Len(document) <= CHUNK_SIZE THEN <<document>>
    ELSE ChunkLoop(document, 0)



(***************************************************************************)
(* The source of truth (database.py).  The main application writes it at   *)
(* any time, so every query is answered from the database as it is when    *)
(* the query runs: whatever an earlier query returned, the next one may    *)
(* find any rows.  Row(r, v) is the dict get_experience_by_id builds from  *)
(* version v of the row with id r; its field ver is history.               *)
(***************************************************************************)
Ids == {"x", "y"}

RECURSIVE Sentences(_)
Sentences(k) == IF k = 0 THEN <<>> ELSE <<"a", " ", " ", "b", ".", " ">> \o Sentences(k - 1)

Row(r, v) ==
    [id |-> r,
     ver |-> v,
     company_name |-> IF r = "x" THEN <<"A", "c">>
                      ELSE IF v = 1 THEN <<"G", "x">> ELSE None,
     role |-> <<"T">>,
     interview_year |-> IF r = "x" THEN 2022 + v
                        ELSE IF v = 1 THEN 2023 ELSE NoneInt,
     offer_status |-> None,
     difficulty_level |-> NoneInt,
     tips |-> IF r = "x" THEN (IF v = 1 THEN None ELSE Sentences(v))
              ELSE Sentences(v - 1),
     rounds |-> <<>>,
     questions |-> <<>>]

\* What the list query of get_all_approved_experiences (lines 117-133) may
\* return: the ids of the rows that are approved when it runs, newest first.
ApprovedLists ==
    {list \in UNION {[1..n -> Ids] : n \in 0..Cardinality(Ids)} :
        \A i, j \in DOMAIN list : list[i] = list[j] => i = j}

\* What the first query of get_experience_by_id (lines 40-57) may find for
\* an id: a version of the row, whatever its status, or no row (0).
RowsFound == 0..MaxVer

(***************************************************************************)
(* The embedding model and the vector store (external).  A vector is what  *)
(* the model makes of a text, abstracted to one of five directions; the    *)
(* fields of, ver and run are history: the record and version the vector   *)
(* was computed from and the process run that computed it.                 *)
(***************************************************************************)
Embedding(text) == Len(text) % 5

\* The inner product of two unit vectors, in hundredths.
InnerProduct(a, b) ==
    LET diff == IF a > b THEN a - b ELSE b - a
    IN  CASE diff = 0 -> 100
          [] diff = 1 -> 60
          [] diff = 2 -> 20
          [] diff = 3 -> 0
          [] OTHER -> -40

\* _embed_texts(texts) for the chunks of experience e, by a model of dimension dim.
EmbedChunks(texts, e_id, ver, dim, run) ==
    [i \in 1..Len(texts) |->
        [v |-> Embedding(texts[i]), d |-> dim, of |-> e_id, ver |-> ver, run |-> run]]

QueryText == <<"t", "i", "p", "s", "?">>

NoIndex == [d |-> 0, vecs |-> <<>>]
EmptyMap == <<>>

Slots(ix) == 0..(Len(ix.vecs) - 1)
ntotal(ix) == Len(ix.vecs)


(***************************************************************************)
(* State.                                                                  *)
(***************************************************************************)
VARIABLES
    phase,                \* "down" | "init" (initialize is rebuilding) | "up"
    index,                \* self.index: [d, vecs], slot s is vecs[s + 1]
    id_map,               \* self.id_map: slot -> experience id
    metadata,             \* self.metadata: experience id -> metadata
    file_index,           \* the file at FAISS_INDEX_PATH
    file_map,             \* the file at FAISS_ID_MAP_PATH
    tasks,                \* the requests: task 0 is initialize's reindex_all
    env,                  \* counters that bound the environment
    resp,                 \* what the step just taken returned to its caller
    hist,                 \* history, read by the properties only
    chunker               \* one call of _chunk_document, statement by statement

vars == <<phase, index, id_map, metadata, file_index,
          file_map, tasks, env, resp, hist, chunker>>

TaskIds == 0..MaxTasks
Requests == 1..MaxTasks

\* id and ver are the record a task fetches or adds; ids are the listed ids
\* a reindex_all has still to fetch, todo the rows it has fetched and not yet
\* added.  sum, failed and matched are history: the chunks the adds of a
\* reindex_all have stored, the records whose add raised, and the records
\* (with the versions indexed) a query found in the index this reindex_all
\* cleared.
IdleTask ==
    [op |-> "none", pc |-> "idle", id |-> "", ver |-> 0, ids |-> <<>>, todo |-> <<>>,
     sum |-> 0, failed |-> {}, matched |-> {}]

\* A request that has been answered, or whose process is gone.
DoneTask == [IdleTask EXCEPT !.pc = "done"]

\* The answer of an operation, in the state its last step leaves; op is "none"
\* after a step that answers nothing.  company, year and top_k are the
\* arguments of a query; tomb, dense, sum, failed and overlapped are history.
NoResp ==
    [op |-> "none", id |-> "", status |-> "", sources |-> <<>>,
     confidence |-> [num |-> 0, den |-> 1],
     company |-> <<>>, year |-> 0, top_k |-> 0,
     tomb |-> {}, dense |-> TRUE, sum |-> 0, failed |-> {}, overlapped |-> FALSE]

Answer(op, r, status) == [NoResp EXCEPT !.op = op, !.id = r, !.status = status]

\* Another reindex_all is between clearing the index and its final save.
RebuildInProgress(t) ==
    \E u \in TaskIds : u # t /\ tasks[u].op = "reindex"

\* The answer of a step of task t that writes to the index; overlapped is
\* history: the step ran while another task's reindex_all was in progress.
Written(t, op, r, status) ==
    [Answer(op, r, status) EXCEPT !.overlapped = RebuildInProgress(t)]

NewTask(op, pc, r) == [IdleTask EXCEPT !.op = op, !.pc = pc, !.id = r]

\* No coroutine is computing on the event loop's thread: the loop is free to
\* start a handler or to resume a task.
LoopFree == \A u \in Requests : tasks[u].pc # "on_loop"

\* The events of a behaviour so far: the requests, the starts of the
\* process, and the errors of the embedding model, the database and the disk.
\* A request for a rebuild, the longest of the operations, counts twice.
Events ==
    Cardinality({u \in Requests : tasks[u].pc # "idle"}) + env.rebuilds
        + env.starts + env.faults

\* n more events are within the bound.
Room(n) == Events + n <= MaxEvents

\* The event loop starts the handler of a new request, which takes the next
\* free slot t.
Free(t) ==
    /\ tasks[t].pc = "idle"
    /\ \A u \in Requests : u < t => tasks[u].pc # "idle"
    /\ Room(1)
    /\ LoopFree

\* The event loop may resume task t: initialize's own rebuild runs before
\* the service takes requests (lifespan), a request's task runs once it is up.
Runs(t) == (IF t = 0 THEN phase = "init" ELSE phase = "up") /\ LoopFree

\* The arguments of the queries: top_k, the company filter, the year filter.
MaxTopK == 2
Companies == {None, <<"A", "C">>}
Years == {NoneInt, 2023}

(***************************************************************************)
(* Persistence: _save_index and _load_index.                               *)
(***************************************************************************)
AbsentIndexFile == [st |-> "absent", d |-> 0, vecs |-> <<>>]
CorruptIndexFile == [st |-> "corrupt", d |-> 0, vecs |-> <<>>]
AbsentMapFile == [st |-> "absent", has_id_map |-> FALSE, id_map |-> <<>>, metadata |-> <<>>]
MalformedMapFile == [AbsentMapFile EXCEPT !.st = "malformed"]
\* A well-formed JSON document without the key 'id_map'.
KeylessMapFile == [AbsentMapFile EXCEPT !.st = "ok"]

\* faiss.write_index(self.index, path)
WriteIndex(ix) == [st |-> "ok", d |-> ix.d, vecs |-> ix.vecs]

\* json.dump of a value v that is a text or an int, or None (none is how
\* the model writes None for its type): None is written as null, a text as a
\* string, an int as a number; and json.load of what was written.
JsonValue(v, none) == IF v = none THEN [t |-> "null"] ELSE [t |-> "value", v |-> v]
PythonValue(j, none) == IF j.t = "null" THEN none ELSE j.v

\* json.dump({'id_map': ..., 'metadata': ...}): the int keys of id_map become
\* their decimal texts.
JsonDump(idm, meta) ==
    [st |-> "ok",
     has_id_map |-> TRUE,
     id_map |-> [k \in {IntToStr(s) : s \in DOMAIN idm} |-> idm[StrToInt(k)]],
     metadata |-> [r \in DOMAIN meta |->
                      [company |-> JsonValue(meta[r].company, None),
                       role |-> JsonValue(meta[r].role, None),
                       year |-> JsonValue(meta[r].year, NoneInt),
                       document |-> JsonValue(meta[r].document, None)]]]

\* {int(k): v for k, v in data['id_map'].items()}
ParseIdMapMutant(doc_id_map) ==
    [s \in {StrToInt(k) + 1 : k \in DOMAIN doc_id_map} |->
        doc_id_map[CHOOSE k \in DOMAIN doc_id_map : StrToInt(k) + 1 = s]]
ParseIdMap(doc_id_map) ==
    [s \in {StrToInt(k) : k \in DOMAIN doc_id_map} |->
        doc_id_map[CHOOSE k \in DOMAIN doc_id_map : StrToInt(k) = s]]

\* data.get('metadata', {}) of the document json.load returns.
ParseMetadata(doc_metadata) ==
    [r \in DOMAIN doc_metadata |->
        [company |-> PythonValue(doc_metadata[r].company, None),
         role |-> PythonValue(doc_metadata[r].role, None),
         year |-> PythonValue(doc_metadata[r].year, NoneInt),
         document |-> PythonValue(doc_metadata[r].document, None)]]

\* How a call of _save_index ends (lines 71-80).  It returns; or it raises:
\* faiss.write_index before it writes, open(..., 'w'), or json.dump into the
\* file that open has truncated; or the process stops in it: while the store
\* file is being written, between the two files, or while json.dump writes.
SaveRaises == {"store_raises", "map_open_raises", "map_write_raises"}
SaveStops == {"stop_in_store", "stop_after_store", "stop_in_map"}
SaveOutcomes == {"saved"} \cup SaveRaises \cup SaveStops

\* _save_index of the memory mem over the files fi and fm.
_save_index(mem, fi, fm, outcome) ==
    [file_index |-> CASE outcome = "store_raises" -> fi
                      [] outcome = "stop_in_store" -> CorruptIndexFile
                      [] OTHER -> WriteIndex(mem.index),
     file_map |-> CASE outcome = "saved" -> JsonDump(mem.id_map, mem.metadata)
                    [] outcome \in {"map_write_raises", "stop_in_map"} -> MalformedMapFile
                    [] OTHER -> fm,
     raised |-> outcome \in SaveRaises,
     stopped |-> outcome \in SaveStops]

\* _load_index: whether it returns without raising.
LoadSucceeds(fi, fm) ==
    /\ fi.st = "ok"
    /\ fm.st = "ok"
    /\ fm.has_id_map
    /\ \A k \in DOMAIN fm.id_map : IsIntText(k)

\* _load_index: what it leaves in self.index, self.id_map, self.metadata.
LoadIndex(fi, fm) ==
    [index |-> [d |-> fi.d, vecs |-> fi.vecs],
     id_map |-> ParseIdMap(fm.id_map),
     metadata |-> ParseMetadata(fm.metadata)]

\* _create_index: the new self.index.
CreateIndex(ix, dim) == [d |-> dim, vecs |-> <<>>]

(***************************************************************************)
(* add_experience, from where the embedding returns (lines 212-230).       *)
(***************************************************************************)
FaissIdMutant(start_id, i) == start_id
FaissIdShifted(start_id, i) == start_id + i + 1
FaissId(start_id, i) == start_id + i

\* Lines 198-207 of add_experience: the document of an experience and the
\* texts of its chunks, tabulated over the rows of the source of truth.
Prepared ==
    [r \in Ids |-> [v \in 1..MaxVer |->
        LET document == _create_experience_document(Row(r, v))
        IN  [document |-> document, chunks |-> _chunk_document(document)]]]

Document(e) == Prepared[e.id][e.ver].document
Chunks(e) == Prepared[e.id][e.ver].chunks

\* index.add raises when the vectors do not have the dimension of the index.
AddRaises(ix, dim) == ix.d # dim

MetadataOf(e) ==
    [company |-> e.company_name,
     role |-> e.role,
     year |-> e.interview_year,
     document |-> Slice(Document(e), 0, SnippetLen)]

\* self.index, self.id_map and self.metadata after the append of e.
Appended(ix, idm, meta, e, dim, run) ==
    LET embeddings == EmbedChunks(Chunks(e), e.id, e.ver, dim, run)
        start_id == ntotal(ix)
        new == {FaissId(start_id, i) : i \in 0..(Len(embeddings) - 1)}
    IN  [index |-> [ix EXCEPT !.vecs = @ \o embeddings],
         id_map |-> [s \in DOMAIN idm \cup new |-> IF s \in new THEN e.id ELSE idm[s]],
         metadata |-> [r \in DOMAIN meta \cup {e.id} |->
                          IF r = e.id THEN MetadataOf(e) ELSE meta[r]]]


(***************************************************************************)
(* query, from where the embedding of the query returns (lines 289-344).   *)
(***************************************************************************)
Lower(c) ==
    CASE c = "A" -> "a" [] c = "C" -> "c" [] c = "D" -> "d" [] c = "G" -> "g"
      [] c = "N" -> "n" [] c = "Q" -> "q" [] c = "R" -> "r" [] c = "T" -> "t"
      [] c = "U" -> "u" [] c = "Y" -> "y" [] OTHER -> c

\* s.lower()
LowerText(s) == [i \in 1..Len(s) |-> Lower(s[i])]

\* sub in s
Contains(sub, s) ==
    \E i \in 1..(Len(s) - Len(sub) + 1) : SubSeq(s, i, i + Len(sub) - 1) = sub

Dist(ix, qv, s) == InnerProduct(qv, ix.vecs[s + 1].v)

\* index.search(query_embedding, k): the k best slots, by descending inner
\* product, the lower slot first among equals.
RECURSIVE Ranked(_, _, _, _)
Ranked(ix, qv, left, k) ==
    IF k = 0 \/ left = {} THEN <<>>
    ELSE LET best == CHOOSE s \in left : \A o \in left :
                         \/ Dist(ix, qv, s) > Dist(ix, qv, o)
                         \/ Dist(ix, qv, s) = Dist(ix, qv, o) /\ s <= o
         IN  <<[idx |-> best, dist |-> Dist(ix, qv, best)]>>
                 \o Ranked(ix, qv, left \ {best}, k - 1)

SearchMutant(ix, qv, k) ==
    LET best == Ranked(ix, qv, Slots(ix), k)
    IN  [i \in 1..Len(best) |-> best[Len(best) + 1 - i]]

Search(ix, qv, k) == Ranked(ix, qv, Slots(ix), k)

\* meta.get('company', '').lower() raises on a company that is None.
CompanyRaises(meta, r, company) ==
    Truthy(company) /\ r \in DOMAIN meta /\ meta[r].company = None

CompanyFailsMutant(meta, r, company) == FALSE
CompanyFails(meta, r, company) ==
    /\ Truthy(company)
    /\ ~Contains(LowerText(company),
                 LowerText(IF r \in DOMAIN meta THEN meta[r].company ELSE <<>>))

YearFails(meta, r, year) ==
    /\ TruthyInt(year)
    /\ (IF r \in DOMAIN meta THEN meta[r].year ELSE NoneInt) # year

SourceOf(meta, r, dist) ==
    IF r \in DOMAIN meta
    THEN [id |-> r, score |-> dist, snippet |-> Slice(meta[r].document, 0, 300),
          company |-> meta[r].company, role |-> meta[r].role, year |-> meta[r].year]
    ELSE [id |-> r, score |-> dist, snippet |-> <<>>,
          company |-> None, role |-> None, year |-> NoneInt]

\* seen_experiences: the records of the sources taken so far.
seen_experiencesMutant(sources) == {}
seen_experiences(sources) == {sources[j].id : j \in 1..Len(sources)}

\* The loop over the candidates (lines 300-326), from candidate i on.
RECURSIVE Collect(_, _, _, _, _, _, _, _)
Collect(cands, i, idm, meta, company, year, top_k, sources) ==
    IF i > Len(cands) THEN [raised |-> FALSE, sources |-> sources]
    ELSE
    LET c == cands[i]
        next == Collect(cands, i + 1, idm, meta, company, year, top_k, sources)
    IN  IF c.dist < SIMILARITY_THRESHOLD THEN next
        ELSE IF c.idx \notin DOMAIN idm THEN next
        ELSE IF idm[c.idx] \in seen_experiences(sources) THEN next
        ELSE IF CompanyRaises(meta, idm[c.idx], company)
             THEN [raised |-> TRUE, sources |-> <<>>]
        ELSE IF CompanyFails(meta, idm[c.idx], company) THEN next
        ELSE IF YearFails(meta, idm[c.idx], year) THEN next
        ELSE LET grown == Append(sources, SourceOf(meta, idm[c.idx], c.dist))
             IN  IF Len(grown) >= top_k
                 THEN [raised |-> FALSE, sources |-> grown]
                 ELSE Collect(cands, i + 1, idm, meta, company, year, top_k, grown)

RECURSIVE SumScores(_)
SumScores(sources) ==
    IF sources = <<>> THEN 0 ELSE Head(sources).score + SumScores(Tail(sources))

\* _generate_answer: min(mean score + 0.2, 1.0), as a fraction of hundredths.
Confidence(sources) ==
    [num |-> Min(SumScores(sources) + 20 * Len(sources), 100 * Len(sources)),
     den |-> Len(sources)]

ZeroConfidence == [num |-> 0, den |-> 1]

\* _empty_response
EmptyResponse == [status |-> "ok", sources |-> <<>>, confidence |-> ZeroConfidence]

\* What query returns, or that it raised (the endpoint answers 500).
QueryResult(ix, idm, meta, dim, company, year, top_k) ==
    LET search_k == IF ntotal(ix) > 0 THEN Min(top_k * 3, ntotal(ix)) ELSE 0
        got == Collect(Search(ix, Embedding(QueryText), search_k), 1, idm, meta,
                       company, year, top_k, <<>>)
    IN  IF search_k = 0 THEN EmptyResponse
        ELSE IF ix.d # dim THEN [status |-> "error", sources |-> <<>>,
                                 confidence |-> ZeroConfidence]
        ELSE IF got.raised THEN [status |-> "error", sources |-> <<>>,
                                 confidence |-> ZeroConfidence]
        ELSE IF got.sources = <<>> THEN EmptyResponse
        ELSE [status |-> "ok", sources |-> got.sources,
              confidence |-> Confidence(got.sources)]


(***************************************************************************)
(* History.  appended lists the appends made to the current store, in      *)
(* order: the record, the first slot, the number of slots, and whether     *)
(* the record has not been removed since.  base is the slot count the      *)
(* store had when it was created or loaded.  saved is the memory the       *)
(* files were written from, when one call of _save_index wrote them both.  *)
(***************************************************************************)
NotSaved ==
    [whole |-> FALSE, index |-> NoIndex, id_map |-> EmptyMap, metadata |-> EmptyMap]

NoHist ==
    [appended |-> <<>>, base |-> 0, removed |-> {},
     loaded |-> "none", load_consistent |-> TRUE, recovering |-> FALSE,
     saved |-> NotSaved]

\* The run of the process: its starts since the initial state.
Run == env.starts

\* Every id_map entry names a slot of the store, and the record whose vector is there.
Consistent(ix, idm) ==
    \A s \in DOMAIN idm : s \in Slots(ix) /\ ix.vecs[s + 1].of = idm[s]

HistCreated(h, t) ==
    [h EXCEPT !.appended = <<>>, !.base = 0, !.recovering = FALSE,
              !.removed = {}]

HistAppended(h, t, e, start) ==
    [h EXCEPT !.appended = Append(@, [id |-> e.id, start |-> start,
                                      n |-> Len(Chunks(e)), live |-> TRUE])]

HistRemoved(h, t, r) ==
    [h EXCEPT !.appended = [i \in 1..Len(@) |->
                               IF @[i].id = r THEN [@[i] EXCEPT !.live = FALSE] ELSE @[i]],
              !.removed = @ \cup {r}]

\* What the files were written from, after a _save_index of mem that ended
\* with outcome.
HistSaved(h, mem, outcome) ==
    [h EXCEPT !.saved =
        CASE outcome = "saved" -> [whole |-> TRUE, index |-> mem.index,
                                   id_map |-> mem.id_map, metadata |-> mem.metadata]
          [] outcome = "store_raises" -> @
          [] OTHER -> NotSaved]

(***************************************************************************)
(* Initial state: the pipeline object is constructed, initialize has not   *)
(* run.  The data directory is empty, or holds the files of an earlier     *)
(* deployment: a store with an id_map document that lacks the key          *)
(* 'id_map', or the files saved by a service that ran an embedding model   *)
(* of another dimension.                                                   *)
(***************************************************************************)
OtherDimension == 2 * EMBEDDING_DIMENSION

LeftoverIndexFile(dim) ==
    [st |-> "ok", d |-> dim,
     vecs |-> EmbedChunks(Chunks(Row("x", 1)), "x", 1, dim, 0)]

LeftoverMapFile ==
    JsonDump(0 :> "x", "x" :> MetadataOf(Row("x", 1)))

InitialFiles ==
    {<<AbsentIndexFile, AbsentMapFile>>,
     <<LeftoverIndexFile(EMBEDDING_DIMENSION), KeylessMapFile>>,
     <<LeftoverIndexFile(OtherDimension), LeftoverMapFile>>}

InitService ==
    /\ phase = "down"
    /\ index = NoIndex
    /\ id_map = EmptyMap
    /\ metadata = EmptyMap
    /\ \E f \in InitialFiles : file_index = f[1] /\ file_map = f[2]
    /\ tasks = [t \in TaskIds |-> IdleTask]
    /\ env = [starts |-> 0, faults |-> 0, rebuilds |-> 0]
    /\ resp = NoResp
    /\ hist = NoHist

\* Or the service is running: it was started on an empty data directory
\* when x and y were the approved rows, and its rebuild indexed and saved
\* them.
RunningMemory ==
    LET empty == [index |-> CreateIndex(NoIndex, EMBEDDING_DIMENSION),
                  id_map |-> EmptyMap, metadata |-> EmptyMap]
        first == Appended(empty.index, empty.id_map, empty.metadata,
                          Row("x", 1), EMBEDDING_DIMENSION, 0)
    IN  Appended(first.index, first.id_map, first.metadata,
                 Row("y", 1), EMBEDDING_DIMENSION, 0)

RunningService ==
    /\ phase = "up"
    /\ index = RunningMemory.index
    /\ id_map = RunningMemory.id_map
    /\ metadata = RunningMemory.metadata
    /\ file_index = WriteIndex(RunningMemory.index)
    /\ file_map = JsonDump(RunningMemory.id_map, RunningMemory.metadata)
    /\ tasks = [t \in TaskIds |-> IdleTask]
    /\ env = [starts |-> 0, faults |-> 0, rebuilds |-> 0]
    /\ resp = NoResp
    /\ hist = HistSaved(
                 HistAppended(
                   HistAppended([NoHist EXCEPT !.loaded = "failed"],
                                0, Row("x", 1), 0),
                   0, Row("y", 1), ntotal(RunningMemory.index) - 1),
                 RunningMemory, "saved")

\* No call of _chunk_document is followed statement by statement.
NoChunker ==
    [pc |-> "none", document |-> <<>>, size |-> 0, overlap |-> 0, start |-> 0,
     chunks |-> <<>>, chunk_index |-> 0, spans |-> <<>>, iterations |-> 0]

Init == (InitService \/ RunningService) /\ chunker = NoChunker

(***************************************************************************)
(* initialize (lines 37-52).                                               *)
(***************************************************************************)
\* self.embedding_dimension, and the dimension of the vectors of the model.
embedding_dimension == EMBEDDING_DIMENSION

\* The embedding model cannot be loaded (line 41): initialize raises before
\* it reads the files, and the start of the process fails.
InitializeFails ==
    /\ phase = "down"
    /\ Room(1)
    /\ env' = [env EXCEPT !.starts = @ + 1]
    /\ resp' = Answer("initialize", "", "model_raised")
    /\ UNCHANGED <<phase, index, id_map, metadata, file_index, file_map, tasks, hist>>
    /\ UNCHANGED chunker

\* _load_index returns: the persisted state is taken as it is.
InitializeLoad ==
    /\ phase = "down"
    /\ Room(1)
    /\ LoadSucceeds(file_index, file_map)
    /\ \E got \in {LoadIndex(file_index, file_map)} :
        /\ index' = got.index
        /\ id_map' = got.id_map
        /\ metadata' = got.metadata
        /\ hist' = [hist EXCEPT !.appended = <<>>,
                                !.base = ntotal(got.index),
                                !.removed = {},
                                !.loaded = "ok",
                                !.load_consistent = Consistent(got.index, got.id_map),
                                !.recovering = ~Consistent(got.index, got.id_map)]
    /\ phase' = "up"
    /\ resp' = Answer("initialize", "", "loaded")
    /\ env' = [env EXCEPT !.starts = @ + 1]
    /\ UNCHANGED <<file_index, file_map, tasks>>
    /\ UNCHANGED chunker

\* _load_index raises, after it has set self.index when the store file was
\* readable: _create_index, then reindex_all up to its first await, the list
\* query of get_all_approved_experiences.
InitializeRebuild ==
    /\ phase = "down"
    /\ Room(1)
    /\ ~LoadSucceeds(file_index, file_map)
    /\ LET half == IF file_index.st = "ok"
                   THEN [d |-> file_index.d, vecs |-> file_index.vecs]
                   ELSE NoIndex
       IN  index' = CreateIndex(CreateIndex(half, embedding_dimension),
                                embedding_dimension)
    /\ id_map' = EmptyMap
    /\ metadata' = EmptyMap
    /\ tasks' = [tasks EXCEPT ![0] = NewTask("reindex", "list", "")]
    /\ hist' = [HistCreated(hist, 0) EXCEPT !.loaded = "failed", !.load_consistent = TRUE]
    /\ phase' = "init"
    /\ resp' = NoResp
    /\ env' = [env EXCEPT !.starts = @ + 1]
    /\ UNCHANGED <<file_index, file_map>>
    /\ UNCHANGED chunker

\* The process is gone: its memory and its tasks with it.  saved is history.
Stopped(saved) ==
    /\ phase' = "down"
    /\ index' = NoIndex
    /\ id_map' = EmptyMap
    /\ metadata' = EmptyMap
    /\ tasks' = [t \in TaskIds |->
                    IF t = 0 \/ tasks[t].pc = "idle" THEN IdleTask ELSE DoneTask]
    /\ hist' = [NoHist EXCEPT !.saved = saved]
    /\ UNCHANGED chunker

(***************************************************************************)
(* POST /api/reindex: reindex_all (lines 247-265).                         *)
(***************************************************************************)
\* reindex_all returns: the index is dense and holds what this call indexed.
DenseAtReturn(ix, idm, sum) == DOMAIN idm = Slots(ix) /\ ntotal(ix) = sum

\* The final _save_index of reindex_all (line 264) over the memory mem and
\* the files fi, fm, ending in each of its ways; h, sum and failed are
\* history, and errors counts the errors the step has met before.  When it
\* returns, reindex_all returns.  When it raises, so does reindex_all: the
\* endpoint answers 500 (main.py lines 236-238), and initialize, which
\* catches nothing (line 52), ends the start of the process.
ReindexReturns(t, mem, h, errors, fi, fm, sum, failed) ==
    \E final \in SaveOutcomes :
        \E save \in {_save_index(mem, fi, fm, final)} :
        LET ends == save.stopped \/ (save.raised /\ t = 0)
        IN
        /\ Room(errors + (IF save.raised THEN 1 ELSE 0))
        /\ file_index' = save.file_index
        /\ file_map' = save.file_map
        /\ IF ends
           THEN /\ env' = [env EXCEPT !.faults = @ + errors + (IF save.raised THEN 1 ELSE 0)]
                /\ resp' = IF save.stopped THEN NoResp
                           ELSE Answer("initialize", "", "raised")
                /\ Stopped(HistSaved(h, mem, final).saved)
           ELSE /\ index' = mem.index
                /\ id_map' = mem.id_map
                /\ metadata' = mem.metadata
                /\ tasks' = [tasks EXCEPT ![t] = IF t = 0 THEN IdleTask ELSE DoneTask]
                /\ resp' = [Written(t, "reindex", "", IF save.raised THEN "raised" ELSE "ok")
                                EXCEPT !.sum = sum,
                                       !.failed = failed,
                                       !.dense = DenseAtReturn(mem.index, mem.id_map, sum)]
                /\ phase' = "up"
                /\ hist' = HistSaved(h, mem, final)
                /\ env' = [env EXCEPT !.faults = @ + errors + (IF save.raised THEN 1 ELSE 0)]
                /\ UNCHANGED chunker

\* The memory as it is.
Memory == [index |-> index, id_map |-> id_map, metadata |-> metadata]

(***************************************************************************)
(* get_experience_by_id (database.py lines 35-110): three awaited queries. *)
(* It is called by the embed endpoint, and by get_all_approved_experiences *)
(* for each listed id in turn (lines 135-140).                             *)
(***************************************************************************)
\* get_experience_by_id returns to its caller, with the dict of the row
\* (found) or None, after errors errors in this step.  The embed endpoint
\* answers 404 for None, and otherwise starts the background task, which
\* runs up to the await of its embeddings.  get_all_approved_experiences
\* keeps the dict and goes on to the first query of the next listed id; after
\* the last id it returns, and reindex_all runs its final _save_index at once
\* when there is nothing to index, and otherwise the first add_experience up
\* to the await of its embeddings.
Gotten(t, found, errors) ==
    IF tasks[t].op = "embed"
    THEN /\ IF found
            THEN /\ tasks' = [tasks EXCEPT ![t].pc = "embed"]
                 /\ resp' = Answer("embed", tasks[t].id, "started")
            ELSE /\ tasks' = [tasks EXCEPT ![t] = DoneTask]
                 /\ resp' = Answer("embed", tasks[t].id, "not_found")
         /\ env' = [env EXCEPT !.faults = @ + errors]
         /\ UNCHANGED <<phase, index, id_map, metadata, file_index, file_map, hist>>
         /\ UNCHANGED chunker
    ELSE LET rows == IF found
                     THEN Append(tasks[t].todo, [id |-> tasks[t].id, ver |-> tasks[t].ver])
                     ELSE tasks[t].todo
         IN  IF tasks[t].ids # <<>>
             THEN /\ tasks' = [tasks EXCEPT ![t].pc = "row",
                                            ![t].id = Head(tasks[t].ids),
                                            ![t].ver = 0,
                                            ![t].ids = Tail(tasks[t].ids),
                                            ![t].todo = rows]
                  /\ resp' = NoResp
                  /\ env' = [env EXCEPT !.faults = @ + errors]
                  /\ UNCHANGED <<phase, index, id_map, metadata, file_index, file_map, hist>>
                  /\ UNCHANGED chunker
             ELSE IF rows = <<>>
             THEN ReindexReturns(t, Memory, hist, errors, file_index, file_map, 0, {})
             ELSE /\ tasks' = [tasks EXCEPT ![t].pc = "embed",
                                            ![t].id = Head(rows).id,
                                            ![t].ver = Head(rows).ver,
                                            ![t].todo = Tail(rows)]
                  /\ resp' = NoResp
                  /\ env' = [env EXCEPT !.faults = @ + errors]
                  /\ UNCHANGED <<phase, index, id_map, metadata, file_index, file_map, hist>>
                  /\ UNCHANGED chunker

\* The query of the row returns (lines 40-57): with no row the function
\* returns None (lines 59-60), otherwise it awaits the query of the rounds.
FetchRow(t) ==
    /\ tasks[t].pc = "row"
    /\ Runs(t)
    /\ \E v \in RowsFound :
        IF v = 0
        THEN Gotten(t, FALSE, 0)
        ELSE /\ tasks' = [tasks EXCEPT ![t].pc = "rounds", ![t].ver = v]
             /\ resp' = NoResp
             /\ UNCHANGED <<phase, index, id_map, metadata, file_index, file_map,
                            env, hist>>
             /\ UNCHANGED chunker

\* The query of the rounds returns (lines 63-75): the query of the questions
\* is awaited.
FetchRounds(t) ==
    /\ tasks[t].pc = "rounds"
    /\ Runs(t)
    /\ tasks' = [tasks EXCEPT ![t].pc = "questions"]
    /\ resp' = NoResp
    /\ UNCHANGED <<phase, index, id_map, metadata, file_index, file_map, env, hist>>
    /\ UNCHANGED chunker

\* The query of the questions returns (lines 78-89): the dict is built and
\* returned (lines 91-106).
FetchQuestions(t) ==
    /\ tasks[t].pc = "questions"
    /\ Runs(t)
    /\ Gotten(t, TRUE, 0)

\* get_pool or one of the three queries raises: the function logs and
\* returns None (lines 108-110).
FetchRaises(t) ==
    /\ tasks[t].pc \in {"row", "rounds", "questions"}
    /\ Runs(t)
    /\ Room(1)
    /\ Gotten(t, FALSE, 1)

(***************************************************************************)
(* POST /api/embed (main.py lines 143-172) and its background task         *)
(* add_experience (rag_pipeline.py lines 194-234).                         *)
(***************************************************************************)
\* The endpoint up to the await of the first query of get_experience_by_id.
StartEmbed(t, r) ==
    /\ phase = "up"
    /\ Free(t)
    /\ tasks' = [tasks EXCEPT ![t] = NewTask("embed", "row", r)]
    /\ hist' = [hist EXCEPT !.removed = @ \ {r}]
    /\ resp' = NoResp
    /\ UNCHANGED <<phase, index, id_map, metadata, file_index, file_map, env>>
    /\ UNCHANGED chunker

\* The embeddings arrive: lines 212-234.  index.add raises and nothing is
\* changed, or the append is made and _save_index ends in each of its ways:
\* when it raises, add_experience logs and re-raises, the append staying in
\* memory; when the process stops in it, the files are left as the stop
\* found them.
AddAppend(t) ==
    /\ tasks[t].op = "embed" /\ tasks[t].pc = "embed"
    /\ Runs(t)
    /\ IF AddRaises(index, embedding_dimension)
       THEN /\ tasks' = [tasks EXCEPT ![t] = DoneTask]
            /\ resp' = Answer("add", tasks[t].id, "raised")
            /\ UNCHANGED <<phase, index, id_map, metadata, file_index, file_map,
                           hist, env>>
            /\ UNCHANGED chunker
       ELSE \E outcome \in SaveOutcomes, e \in {Row(tasks[t].id, tasks[t].ver)} :
            \E new \in {Appended(index, id_map, metadata, e,
                                  embedding_dimension, Run)} :
            \E save \in {_save_index(new, file_index, file_map, outcome)} :
                /\ save.raised => Room(1)
                /\ file_index' = save.file_index
                /\ file_map' = save.file_map
                /\ IF save.stopped
                   THEN /\ resp' = NoResp
                        /\ UNCHANGED env
                        /\ Stopped(HistSaved(hist, new, outcome).saved)
                   ELSE /\ env' = [env EXCEPT !.faults = @ + (IF save.raised THEN 1 ELSE 0)]
                        /\ index' = new.index
                        /\ id_map' = new.id_map
                        /\ metadata' = new.metadata
                        /\ tasks' = [tasks EXCEPT ![t] = DoneTask]
                        /\ resp' = Written(t, "add", tasks[t].id,
                                           IF save.raised THEN "raised" ELSE "ok")
                        /\ hist' = HistSaved(HistAppended(hist, t, e, ntotal(index)),
                                             new, outcome)
                        /\ UNCHANGED phase
                        /\ UNCHANGED chunker

\* The embedding model raises: add_experience logs and re-raises.
AddEmbedFails(t) ==
    /\ tasks[t].op = "embed" /\ tasks[t].pc = "embed"
    /\ Runs(t)
    /\ Room(1)
    /\ env' = [env EXCEPT !.faults = @ + 1]
    /\ tasks' = [tasks EXCEPT ![t] = DoneTask]
    /\ resp' = Answer("add", tasks[t].id, "raised")
    /\ UNCHANGED <<phase, index, id_map, metadata, file_index, file_map, hist>>
    /\ UNCHANGED chunker

(***************************************************************************)
(* DELETE /api/embed/{id}: remove_experience (lines 236-245), no await.    *)
(***************************************************************************)
\* slots_to_remove = [k for k, v in self.id_map.items() if v == experience_id]
slots_to_removeMutant(idm, r) == {}
slots_to_removeInverted(idm, r) == {k \in DOMAIN idm : idm[k] # r}
slots_to_remove(idm, r) == {k \in DOMAIN idm : idm[k] = r}

RemoveExperience(t, r) ==
    /\ phase = "up"
    /\ Free(t)
    /\ metadata' = [k \in DOMAIN metadata \ {r} |-> metadata[k]]
    /\ id_map' = [s \in DOMAIN id_map \ slots_to_remove(id_map, r) |-> id_map[s]]
    /\ tasks' = [tasks EXCEPT ![t] = DoneTask]
    /\ resp' = Written(t, "remove", r, "ok")
    /\ hist' = HistRemoved(hist, t, r)
    /\ UNCHANGED <<phase, index, file_index, file_map, env>>
    /\ UNCHANGED chunker

(***************************************************************************)
(* reindex_all, step by step.                                              *)
(***************************************************************************)
\* The records the query without filters finds in the index as it is, each
\* with the versions its slots were computed from.
MatchedNow ==
    LET found == seen_experiences(
                     QueryResult(index, id_map, metadata, embedding_dimension,
                                 None, NoneInt, MaxTopK).sources)
    IN  {[id |-> id_map[s], ver |-> index.vecs[s + 1].ver] :
            s \in {o \in Slots(index) : o \in DOMAIN id_map /\ id_map[o] \in found}}

\* reindex_all up to its first await, the list query: _create_index.  What
\* a query found in the index that is cleared is kept as history.
StartReindex(t) ==
    /\ phase = "up"
    /\ Free(t)
    /\ Room(2)
    /\ index' = CreateIndex(index, embedding_dimension)
    /\ id_map' = EmptyMap
    /\ metadata' = EmptyMap
    /\ tasks' = [tasks EXCEPT ![t] = [NewTask("reindex", "list", "") EXCEPT
                                          !.matched = MatchedNow]]
    /\ hist' = HistCreated(hist, t)
    /\ resp' = Written(t, "none", "", "")
    /\ env' = [env EXCEPT !.rebuilds = @ + 1]
    /\ UNCHANGED <<phase, file_index, file_map>>
    /\ UNCHANGED chunker

\* The list query returns (database.py lines 117-133): with no approved row
\* get_all_approved_experiences returns [] and the final _save_index runs;
\* otherwise the first query of get_experience_by_id for the first listed id
\* is awaited.
ReindexListed(t) ==
    /\ tasks[t].op = "reindex" /\ tasks[t].pc = "list"
    /\ Runs(t)
    /\ \E list \in ApprovedLists :
        IF list = <<>>
        THEN ReindexReturns(t, Memory, hist, 0, file_index, file_map, 0, {})
        ELSE /\ tasks' = [tasks EXCEPT ![t].pc = "row",
                                       ![t].id = Head(list),
                                       ![t].ids = Tail(list)]
             /\ resp' = NoResp
             /\ UNCHANGED <<phase, index, id_map, metadata, file_index, file_map,
                            env, hist>>
             /\ UNCHANGED chunker

\* get_pool or the list query raises: get_all_approved_experiences logs and
\* returns [] (database.py lines 144-146), and the final _save_index runs.
ReindexListFails(t) ==
    /\ tasks[t].op = "reindex" /\ tasks[t].pc = "list"
    /\ Runs(t)
    /\ Room(1)
    /\ ReindexReturns(t, Memory, hist, 1, file_index, file_map, 0, {})

\* How the add_experience of one record of a reindex_all ends: with an
\* exception of the embedding, or with its append and what its _save_index
\* (line 229) does.
AddOutcomes == {"embed_raises"} \cup SaveOutcomes

\* The add_experience of the current record ends, and reindex_all logs its
\* exception if it raised; then the next record's add_experience runs up to
\* its await, or the final _save_index (line 264) runs over the memory as
\* the add has left it.
ReindexAdd(t) ==
    /\ tasks[t].op = "reindex" /\ tasks[t].pc = "embed"
    /\ Runs(t)
    /\ \E outcome \in IF AddRaises(index, embedding_dimension)
                      THEN {"saved"} ELSE AddOutcomes :
        \E e \in {Row(tasks[t].id, tasks[t].ver)},
           added \in {outcome # "embed_raises" /\ ~AddRaises(index, embedding_dimension)} :
        \E new \in {IF added
                     THEN Appended(index, id_map, metadata, e,
                                   embedding_dimension, Run)
                     ELSE Memory} :
        \E save \in {IF added
                      THEN _save_index(new, file_index, file_map, outcome)
                      ELSE [file_index |-> file_index, file_map |-> file_map,
                            raised |-> TRUE, stopped |-> FALSE]},
           h \in {IF added
                   THEN HistSaved(HistAppended(hist, t, e, ntotal(index)), new, outcome)
                   ELSE hist} :
        LET errors == IF outcome \in {"embed_raises"} \cup SaveRaises THEN 1 ELSE 0
            sum == tasks[t].sum + (IF save.raised THEN 0 ELSE Len(Chunks(e)))
            failed == tasks[t].failed \cup (IF save.raised THEN {e.id} ELSE {})
        IN  /\ Room(errors)
            /\ IF save.stopped
               THEN /\ file_index' = save.file_index
                    /\ file_map' = save.file_map
                    /\ resp' = NoResp
                    /\ UNCHANGED env
                    /\ Stopped(h.saved)
               ELSE IF tasks[t].todo = <<>>
               THEN ReindexReturns(t, new, h, errors, save.file_index,
                                   save.file_map, sum, failed)
               ELSE /\ env' = [env EXCEPT !.faults = @ + errors]
                    /\ index' = new.index
                    /\ id_map' = new.id_map
                    /\ metadata' = new.metadata
                    /\ file_index' = save.file_index
                    /\ file_map' = save.file_map
                    /\ hist' = h
                    /\ tasks' = [tasks EXCEPT ![t].id = Head(tasks[t].todo).id,
                                              ![t].ver = Head(tasks[t].todo).ver,
                                              ![t].todo = Tail(tasks[t].todo),
                                              ![t].sum = sum,
                                              ![t].failed = failed]
                    /\ resp' = IF added THEN Written(t, "none", "", "") ELSE NoResp
                    /\ UNCHANGED phase
                    /\ UNCHANGED chunker

(***************************************************************************)
(* POST /api/query: query (lines 271-344).                                 *)
(***************************************************************************)
\* query up to the await of the embedding of the query text.
StartQuery(t) ==
    /\ phase = "up"
    /\ Free(t)
    /\ tasks' = [tasks EXCEPT ![t] = NewTask("query", "embed", "")]
    /\ resp' = NoResp
    /\ UNCHANGED <<phase, index, id_map, metadata, file_index, file_map, env, hist>>
    /\ UNCHANGED chunker

\* The embedding arrives: search and filter.  The filters and top_k are the
\* arguments of the call; nothing reads them before this step.
QuerySearch(t) ==
    /\ tasks[t].op = "query" /\ tasks[t].pc = "embed"
    /\ Runs(t)
    /\ \E company \in Companies, year \in Years, top_k \in 1..MaxTopK :
        \E got \in {QueryResult(index, id_map, metadata, embedding_dimension,
                                 company, year, top_k)} :
            resp' = [Answer("query", "", got.status) EXCEPT
                        !.sources = got.sources,
                        !.confidence = got.confidence,
                        !.company = company, !.year = year, !.top_k = top_k,
                        !.tomb = hist.removed]
    /\ tasks' = [tasks EXCEPT ![t] = DoneTask]
    /\ UNCHANGED <<phase, index, id_map, metadata, file_index, file_map, env, hist>>
    /\ UNCHANGED chunker

\* The embedding model raises (lines 285-287): query raises before it
\* searches, and the endpoint answers 500 (main.py lines 136-138).
QueryEmbedFails(t) ==
    /\ tasks[t].op = "query" /\ tasks[t].pc = "embed"
    /\ Runs(t)
    /\ Room(1)
    /\ env' = [env EXCEPT !.faults = @ + 1]
    /\ tasks' = [tasks EXCEPT ![t] = DoneTask]
    /\ resp' = [Answer("query", "", "embed_raised") EXCEPT !.tomb = hist.removed]
    /\ UNCHANGED <<phase, index, id_map, metadata, file_index, file_map, hist>>
    /\ UNCHANGED chunker

(***************************************************************************)
(* GET /api/similar (main.py lines 189-205): find_similar (rag_pipeline.py *)
(* lines 503-534).  It has no await: _embed_texts runs in the coroutine,   *)
(* on the thread of the event loop, and nothing else runs meanwhile.       *)
(***************************************************************************)
\* The loop over the candidates (lines 520-529), from candidate i on.
RECURSIVE CollectSimilar(_, _, _, _, _, _)
CollectSimilar(cands, i, idm, top_k, seen, results) ==
    IF i > Len(cands) THEN results
    ELSE
    LET c == cands[i] IN
    IF c.idx \in DOMAIN idm /\ idm[c.idx] \notin seen
    THEN LET grown == Append(results, [id |-> idm[c.idx], score |-> c.dist])
         IN  IF Len(grown) >= top_k THEN grown
             ELSE CollectSimilar(cands, i + 1, idm, top_k, seen \cup {idm[c.idx]}, grown)
    ELSE CollectSimilar(cands, i + 1, idm, top_k, seen, results)

\* seen = {experience_id}
SeenAtStart(r) == {r}

\* Lines 513-534: what find_similar returns for an indexed record, or that
\* index.search raised on a vector of another dimension than the store's.
SimilarResult(ix, idm, meta, dim, r, top_k) ==
    IF ix.d # dim THEN [status |-> "error", sources |-> <<>>]
    ELSE [status |-> "ok",
          sources |-> CollectSimilar(Search(ix, Embedding(meta[r].document), top_k + 5),
                                     1, idm, top_k, SeenAtStart(r), <<>>)]

\* find_similar up to the call of _embed_texts: ValueError for a record
\* without metadata (the endpoint answers 500 with its message), nothing
\* found for a record without document text.
StartSimilar(t, r) ==
    /\ phase = "up"
    /\ Free(t)
    /\ IF r \notin DOMAIN metadata
       THEN /\ tasks' = [tasks EXCEPT ![t] = DoneTask]
            /\ resp' = [Answer("similar", r, "not_in_index") EXCEPT !.tomb = hist.removed]
       ELSE IF metadata[r].document = <<>>
       THEN /\ tasks' = [tasks EXCEPT ![t] = DoneTask]
            /\ resp' = [Answer("similar", r, "ok") EXCEPT !.tomb = hist.removed]
       ELSE /\ tasks' = [tasks EXCEPT ![t] = NewTask("similar", "on_loop", r)]
            /\ resp' = NoResp
    /\ UNCHANGED <<phase, index, id_map, metadata,
                   file_index, file_map, env, hist>>
    /\ UNCHANGED chunker

\* _embed_texts returns: search and filter.  top_k is the argument of the
\* call; nothing reads it before this step.
FinishSimilar(t) ==
    /\ phase = "up"
    /\ tasks[t].op = "similar" /\ tasks[t].pc = "on_loop"
    /\ \E top_k \in 1..MaxTopK :
        \E got \in {SimilarResult(index, id_map, metadata, embedding_dimension,
                                   tasks[t].id, top_k)} :
            resp' = [Answer("similar", tasks[t].id, got.status) EXCEPT
                        !.sources = got.sources,
                        !.top_k = top_k,
                        !.tomb = hist.removed]
    /\ tasks' = [tasks EXCEPT ![t] = DoneTask]
    /\ UNCHANGED <<phase, index, id_map, metadata,
                   file_index, file_map, env, hist>>
    /\ UNCHANGED chunker

\* The embedding model raises in _embed_texts (line 514): find_similar
\* raises, and the endpoint answers 500 (main.py lines 203-205).
SimilarEmbedFails(t) ==
    /\ phase = "up"
    /\ tasks[t].op = "similar" /\ tasks[t].pc = "on_loop"
    /\ Room(1)
    /\ env' = [env EXCEPT !.faults = @ + 1]
    /\ tasks' = [tasks EXCEPT ![t] = DoneTask]
    /\ resp' = [Answer("similar", tasks[t].id, "embed_raised") EXCEPT !.tomb = hist.removed]
    /\ UNCHANGED <<phase, index, id_map, metadata, file_index, file_map, hist>>
    /\ UNCHANGED chunker

(***************************************************************************)
(* The environment: the process stops.                                     *)
(***************************************************************************)
\* The process stops between two steps.
Crash ==
    /\ phase # "down"
    /\ resp' = NoResp
    /\ Stopped(hist.saved)
    /\ UNCHANGED <<file_index, file_map, env>>

\* The service and its environment: every request the endpoints serve,
\* every awaited call returning in each of the ways the database, the
\* embedding model and the disk let it return, and the process stopping at
\* any time and being started again.
Next ==
    \/ InitializeFails
    \/ InitializeLoad
    \/ InitializeRebuild
    \/ \E t \in Requests, r \in Ids : StartEmbed(t, r)
    \/ \E t \in TaskIds : FetchRow(t)
    \/ \E t \in TaskIds : FetchRounds(t)
    \/ \E t \in TaskIds : FetchQuestions(t)
    \/ \E t \in TaskIds : FetchRaises(t)
    \/ \E t \in Requests : AddAppend(t)
    \/ \E t \in Requests : AddEmbedFails(t)
    \/ \E t \in Requests, r \in Ids : RemoveExperience(t, r)
    \/ \E t \in Requests : StartReindex(t)
    \/ \E t \in TaskIds : ReindexListed(t)
    \/ \E t \in TaskIds : ReindexListFails(t)
    \/ \E t \in TaskIds : ReindexAdd(t)
    \/ \E t \in Requests : StartQuery(t)
    \/ \E t \in Requests : QuerySearch(t)
    \/ \E t \in Requests : QueryEmbedFails(t)
    \/ \E t \in Requests, r \in Ids : StartSimilar(t, r)
    \/ \E t \in Requests : FinishSimilar(t)
    \/ \E t \in Requests : SimilarEmbedFails(t)
    \/ Crash

Spec == Init /\ [][Next]_vars

(***************************************************************************)
(* _chunk_document (lines 143-179), statement by statement, for any        *)
(* document and any settings: Settings (config.py lines 32-36) takes every *)
(* pair of integers CHUNK_SIZE, CHUNK_OVERLAP the environment gives.       *)
(***************************************************************************)
MaxDocLen == 6
MaxChunkSize == 5

\* The loop is followed for so many iterations.
MaxIterations == MaxDocLen + 1

Documents == UNION {[1..n -> {"a", ".", " "}] : n \in 0..MaxDocLen}
ChunkSizes == 1..MaxChunkSize
ChunkOverlaps == 0..MaxChunkSize

\* The service is configured and has a document to chunk; nothing is chunked yet.
ChunkInit ==
    /\ InitService
    /\ file_index = AbsentIndexFile
    /\ \E document \in Documents, size \in ChunkSizes, overlap \in ChunkOverlaps :
        chunker = [NoChunker EXCEPT !.pc = "configured", !.document = document,
                                    !.size = size, !.overlap = overlap]

ServiceVars ==
    <<phase, index, id_map, metadata, file_index, file_map, tasks, env, resp, hist>>

\* Lines 148-153: the document fits one chunk and is returned as it is.
ChunkWhole ==
    /\ chunker.pc = "configured"
    /\ Len(chunker.document) <= chunker.size
    /\ chunker' = [chunker EXCEPT
                      !.pc = "done",
                      !.chunks = <<[text |-> chunker.document, chunk_index |-> 0]>>,
                      !.spans = <<[start |-> 0, end |-> Len(chunker.document)]>>]
    /\ UNCHANGED ServiceVars

\* Lines 155-157: chunks = [], start = 0, chunk_index = 0.
ChunkEnter ==
    /\ chunker.pc = "configured"
    /\ ~(Len(chunker.document) <= chunker.size)
    /\ chunker' = [chunker EXCEPT !.pc = "loop", !.start = 0, !.chunk_index = 0,
                                  !.chunks = <<>>]
    /\ UNCHANGED ServiceVars

\* Line 177: start = end - settings.CHUNK_OVERLAP.
NextStartMutant(end, overlap) == end + overlap

NextStart(end, overlap) == end - overlap

\* Lines 159-177: one iteration of the while loop.
ChunkIterate ==
    /\ chunker.pc = "loop"
    /\ chunker.start < Len(chunker.document)
    /\ chunker.iterations < MaxIterations
    /\ LET end == WindowEndOf(chunker.document, chunker.start, chunker.size)
           chunk_text == Strip(Slice(chunker.document, chunker.start, end))
       IN  chunker' = [chunker EXCEPT
               !.chunks = IF KeepsChunk(chunk_text)
                          THEN Append(@, [text |-> chunk_text,
                                          chunk_index |-> chunker.chunk_index])
                          ELSE @,
               !.chunk_index = IF KeepsChunk(chunk_text) THEN @ + 1 ELSE @,
               !.start = NextStart(end, chunker.overlap),
               !.spans = Append(@, [start |-> chunker.start, end |-> end]),
               !.iterations = @ + 1]
    /\ UNCHANGED ServiceVars

\* Line 179: the loop condition fails and the chunks are returned.
ChunkReturn ==
    /\ chunker.pc = "loop"
    /\ ~(chunker.start < Len(chunker.document))
    /\ chunker' = [chunker EXCEPT !.pc = "done"]
    /\ UNCHANGED ServiceVars

ChunkNext == ChunkWhole \/ ChunkEnter \/ ChunkIterate \/ ChunkReturn

ChunkSpec == ChunkInit /\ [][ChunkNext]_vars

(***************************************************************************)
(* Properties.                                                             *)
(***************************************************************************)
\* The slots of the i-th append made to the current store.
RangeOf(entry) == entry.start..(entry.start + entry.n - 1)

\* The slot after the last one of the first i appends.
EndOf(log, i) == IF i = 0 THEN hist.base ELSE log[i].start + log[i].n

\* C1: however add_experience calls interleave, each append takes the
\* contiguous slots [count_at_append, count_at_append + N), the slot count of
\* the store is the sum of the chunk vectors appended, no slot holds the
\* vectors of two calls, and id_map maps every slot of an append to the
\* record of the call that made it (until that record is removed).
C1_ExactlyOnceSlots ==
    LET log == hist.appended IN
    /\ \A i \in DOMAIN log : log[i].start = EndOf(log, i - 1)
    /\ ntotal(index) = EndOf(log, Len(log))
    /\ \A i, j \in DOMAIN log : i # j => RangeOf(log[i]) \cap RangeOf(log[j]) = {}
    /\ \A i \in DOMAIN log : \A s \in RangeOf(log[i]) :
        /\ s \in Slots(index)
        /\ index.vecs[s + 1].of = log[i].id
        /\ log[i].live => s \in DOMAIN id_map /\ id_map[s] = log[i].id

\* An add_experience has just appended a record of two chunks, after another
\* append, while a further add_experience awaits its embeddings.
C1_Witness ==
    /\ resp.op = "add" /\ resp.status = "ok"
    /\ Len(hist.appended) >= 2
    /\ hist.appended[Len(hist.appended)].n = 2
    /\ \E t \in Requests : tasks[t].op = "embed" /\ tasks[t].pc = "embed"

\* C2: once remove_experience(X) has returned, no query returns a source
\* with id X until an add request for X (or a rebuild) is issued after the
\* removal, whatever was in flight when X was removed.
C2_TombstoneVisibility ==
    resp.op = "query" =>
        \A i \in DOMAIN resp.sources : resp.sources[i].id \notin resp.tomb

\* The appends of record r to the current store that no removal has undone.
LiveAppends(r) ==
    {i \in DOMAIN hist.appended : hist.appended[i].id = r /\ hist.appended[i].live}

\* C3: after a record is added again, the slots id_map maps to it are
\* exactly the slots of its latest append.
C3_ReAddReplaces ==
    ~hist.recovering =>
        \A r \in Ids :
            LiveAppends(r) # {} =>
                LET last == CHOOSE i \in LiveAppends(r) : \A j \in LiveAppends(r) : j <= i
                IN  slots_to_remove(id_map, r) = RangeOf(hist.appended[last])

\* C4 as stated: outside crash recovery the slots of the store and the keys
\* of id_map are the same set.
C4_SlotsAreKeys ==
    (phase = "up" /\ ~hist.recovering) => DOMAIN id_map = Slots(index)

\* C4: outside crash recovery every key of id_map is a slot of the store,
\* mapped to the record whose vector is there; a slot appended since the
\* store was created or loaded has no entry exactly when its record was
\* removed after the append.
C4_KeysAreLiveSlots ==
    ~hist.recovering =>
        /\ Consistent(index, id_map)
        /\ \A i \in DOMAIN hist.appended : \A s \in RangeOf(hist.appended[i]) :
            s \in DOMAIN id_map <=> hist.appended[i].live

\* A record of the store has been removed and another one is still mapped.
C4_Witness ==
    /\ phase = "up" /\ ~hist.recovering
    /\ resp.op = "remove"
    /\ \E i \in DOMAIN hist.appended : ~hist.appended[i].live
    /\ id_map # EmptyMap
    /\ DOMAIN id_map # Slots(index)

\* C5: no add, remove or reindex takes effect while another task's
\* reindex_all is between clearing the index and its final save.
C5_WriteExclusion == ~resp.overlapped

\* C6: when reindex_all returns, every slot of the store has an id_map entry
\* and the store holds exactly the chunks of the records this call added,
\* also when other writes were in flight during the rebuild.
C6_RebuildIsDense == resp.op = "reindex" => resp.dense

\* C7: wherever the process stops during _save_index, the next load never
\* yields an id_map with a key that is not a slot of the loaded store, or
\* with a slot mapped to a record other than the one whose vector is there.
C7_LoadIsConsistent == hist.load_consistent

C9_NoHalfLoadedState ==
    /\ ~(resp.op = "initialize" /\ resp.status = "raised")
    /\ hist.loaded = "failed" =>
        /\ phase \in {"init", "up"}
        /\ hist.base = 0
        /\ index.d = embedding_dimension
        /\ \A i \in DOMAIN index.vecs : index.vecs[i].run = Run
        /\ \A s \in DOMAIN id_map :
            \E i \in DOMAIN hist.appended : s \in RangeOf(hist.appended[i])
        /\ \A r \in DOMAIN metadata :
            \E i \in DOMAIN hist.appended : hist.appended[i].id = r

\* C10: a persisted index of another dimension than the configured one, or
\* whose id_map does not match its slots, is not taken by initialize: the
\* state a successful load leaves has the configured dimension and an
\* id_map that matches the store.
C10_MismatchIsLoadFailure ==
    (hist.loaded = "ok" /\ hist.appended = <<>> /\ tasks = [t \in TaskIds |-> IdleTask]) =>
        /\ index.d = embedding_dimension
        /\ Consistent(index, id_map)

\* C11: no query result holds two sources with the same record id, also
\* when a record owns several slots.
C11_OneSourcePerRecord ==
    resp.op = "query" =>
        \A i, j \in DOMAIN resp.sources :
            resp.sources[i].id = resp.sources[j].id => i = j

\* A query asked for two sources and returned a record that owns two slots
\* of the store, both scoring at or above the threshold.
C11_Witness ==
    /\ resp.op = "query" /\ resp.status = "ok" /\ resp.top_k >= 2
    /\ \E i \in DOMAIN resp.sources :
        \E s1, s2 \in slots_to_remove(id_map, resp.sources[i].id) :
            /\ s1 # s2
            /\ Dist(index, Embedding(QueryText), s1) >= SIMILARITY_THRESHOLD
            /\ Dist(index, Embedding(QueryText), s2) >= SIMILARITY_THRESHOLD

\* C12: every source a query returns passes the filters given: its metadata
\* company contains the company filter, case-insensitively, and its metadata
\* year equals the year filter; a source without the company or the year is
\* never returned under that filter.
C12_SourcesPassFilters ==
    resp.op = "query" =>
        \A i \in DOMAIN resp.sources :
            /\ Truthy(resp.company) =>
                /\ resp.sources[i].company # None
                /\ Contains(LowerText(resp.company), LowerText(resp.sources[i].company))
            /\ TruthyInt(resp.year) =>
                /\ resp.sources[i].year # NoneInt
                /\ resp.sources[i].year = resp.year

\* A query with both filters returned a source whose company contains the
\* company filter only up to case, while the index maps a slot to a record
\* that is not among the sources.
C12_Witness ==
    /\ resp.op = "query" /\ resp.status = "ok"
    /\ Truthy(resp.company) /\ TruthyInt(resp.year)
    /\ resp.sources # <<>>
    /\ \E i \in DOMAIN resp.sources :
        /\ ~Contains(resp.company, resp.sources[i].company)
        /\ ~Contains(LowerText(resp.company), resp.sources[i].company)
        /\ ~Contains(resp.company, LowerText(resp.sources[i].company))
    /\ \E s \in DOMAIN id_map : id_map[s] \notin seen_experiences(resp.sources)

\* Record r passes the filters of a query: a filter that is given needs the
\* metadata field to be there and to match.
PassesFilters(meta, r, company, year) ==
    /\ Truthy(company) =>
        /\ r \in DOMAIN meta
        /\ meta[r].company # None
        /\ Contains(LowerText(company), LowerText(meta[r].company))
    /\ TruthyInt(year) => r \in DOMAIN meta /\ meta[r].year = year

\* The records that survive the checks of a query over the index as it is:
\* those with a candidate slot that scores at or above the threshold, is
\* mapped by id_map, and whose record passes the filters.
Survivors(company, year, top_k) ==
    LET search_k == Min(top_k * 3, ntotal(index))
        cands == Search(index, Embedding(QueryText), search_k)
    IN  {id_map[cands[i].idx] : i \in
            {j \in DOMAIN cands :
                /\ cands[j].dist >= SIMILARITY_THRESHOLD
                /\ cands[j].idx \in DOMAIN id_map
                /\ PassesFilters(metadata, id_map[cands[j].idx], company, year)}}

\* C14: a query whose embedding has arrived and for which no source survives
\* (the store is empty, or every candidate is dropped by the threshold,
\* tombstone, dedup or filter checks) raises no error and returns
\* sources = [] with confidence 0.0.
C14_NoResultsIsNoError ==
    (/\ resp.op = "query" /\ resp.status # "embed_raised"
     /\ index.d = embedding_dimension
     /\ Survivors(resp.company, resp.year, resp.top_k) = {}) =>
        /\ resp.status = "ok"
        /\ resp.sources = <<>>
        /\ resp.confidence = ZeroConfidence

\* C15: over a store of at most 3 * top_k slots a query whose embedding has
\* arrived returns exactly min(top_k, m) sources, m being the number of
\* records that survive its checks, with a confidence above 0 when m > 0.
C15_ReturnsAllSurvivors ==
    (/\ resp.op = "query" /\ resp.status # "embed_raised"
     /\ index.d = embedding_dimension
     /\ ntotal(index) <= 3 * resp.top_k) =>
        LET m == Cardinality(Survivors(resp.company, resp.year, resp.top_k))
        IN  /\ Len(resp.sources) = Min(resp.top_k, m)
            /\ m > 0 => resp.confidence.num > 0

\* C20: the confidence of a non-empty query result is the mean score of its
\* sources clamped to [0, 1] (in hundredths: num / den).
C20_ConfidenceIsClampedMean ==
    (resp.op = "query" /\ resp.sources # <<>>) =>
        LET n == Len(resp.sources)
        IN  /\ resp.confidence.den = n
            /\ resp.confidence.num = Max(0, Min(SumScores(resp.sources), 100 * n))
            /\ 0 <= resp.confidence.num /\ resp.confidence.num <= 100 * n

\* C13: a record whose add raised during reindex_all leaves no slot, no
\* id_map entry and no metadata behind when the reindex returns.
C13_FailureIsConfined ==
    resp.op = "reindex" =>
        \A r \in resp.failed :
            /\ r \notin DOMAIN metadata
            /\ slots_to_remove(id_map, r) = {}
            /\ \A s \in Slots(index) : index.vecs[s + 1].of # r

\* C16: with 0 <= overlap < max_size every iteration of the chunking loop
\* moves start forward, so the loop terminates.
C16_LoopMovesForward ==
    (/\ chunker.pc \in {"loop", "done"}
     /\ chunker.overlap < chunker.size) =>
        /\ \A k \in 1..chunker.iterations :
            (IF k = chunker.iterations THEN chunker.start
             ELSE chunker.spans[k + 1].start) > chunker.spans[k].start
        /\ chunker.iterations <= Len(chunker.document)

\* C17: with CHUNK_OVERLAP >= CHUNK_SIZE nothing is chunked: the
\* configuration is refused first.
C17_BadOverlapIsRefused ==
    chunker.overlap >= chunker.size => chunker.pc \in {"none", "configured"}

\* The text of document between the edges of a span (line 168, before strip).
SpanText(document, span) == Slice(document, span.start, span.end)

\* The spans that are not all whitespace, in the order they were carved.
KeptSpans(document, spans) ==
    LET NonBlank(span) == Strip(SpanText(document, span)) # <<>>
    IN  SelectSeq(spans, NonBlank)

\* C18: when _chunk_document returns, the spans it carved start at 0, begin
\* in strictly increasing order, each begins no later than the one before
\* ends, and the last ends at or past the end of the document, so every
\* position of the document lies in a span; the chunks are the spans that are
\* not all whitespace, each up to the whitespace at its edges, and they are
\* numbered 0..N-1 in order.
C18_SpansCoverInOrder ==
    chunker.pc = "done" =>
        LET document == chunker.document
            spans == chunker.spans
            chunks == chunker.chunks
            n == Len(spans)
            kept == KeptSpans(document, spans)
        IN  /\ n >= 1
            /\ spans[1].start = 0
            /\ \A k \in 1..(n - 1) :
                /\ spans[k].start < spans[k + 1].start
                /\ spans[k + 1].start <= spans[k].end
            /\ spans[n].end >= Len(document)
            /\ \A p \in 0..(Len(document) - 1) :
                \E k \in 1..n : spans[k].start <= p /\ p < spans[k].end
            /\ \A i \in 1..Len(chunks) : chunks[i].chunk_index = i - 1
            /\ Len(kept) <= Len(chunks)
            /\ \A i \in 1..Len(kept) :
                Strip(chunks[i].text) = Strip(SpanText(document, kept[i]))

\* The windowed path returned at least two chunks after a window was snapped
\* back to a '.', an all-whitespace span was dropped, and spans overlapped.
C18_Witness ==
    /\ chunker.pc = "done"
    /\ chunker.iterations >= 3
    /\ Len(chunker.chunks) >= 2
    /\ Len(chunker.chunks) < Len(chunker.spans)
    /\ chunker.overlap >= 1
    /\ \E k \in 1..Len(chunker.spans) :
        /\ chunker.spans[k].end < chunker.spans[k].start + chunker.size
        /\ chunker.spans[k].end < Len(chunker.document)

\* A document add_experience passes to _chunk_document: it is not empty
\* (lines 199-201) and begins with the header line 'Company: ...' of
\* _create_experience_document (line 109).
IsExperienceDocument(document) == document # <<>> /\ ~IsSpace(document[1])

C21_NoPlaceholderText ==
    \A r \in DOMAIN metadata :
        \A placeholder \in {NoneText, <<"U", "n", "k", "n", "o", "w", "n">>, <<"?">>} :
            ~Contains(placeholder, metadata[r].document)

\* Position q holds a '.' inside document[start:edge].
DotInWindow(document, start, edge, q) ==
    /\ SliceBound(start, Len(document)) <= q
    /\ q < SliceBound(edge, Len(document))
    /\ document[q + 1] = "."

\* Every chunk the windowed path has emitted has 1 to max_size characters.
ChunkLengthsBounded ==
    chunker.iterations >= 1 =>
        \A i \in 1..Len(chunker.chunks) :
            /\ 1 <= Len(chunker.chunks[i].text)
            /\ Len(chunker.chunks[i].text) <= chunker.size

\* C22 as stated: a window whose right edge start + max_size lies before the
\* end of the document ends just after its last '.' when that '.' is at or
\* after the midpoint start + max_size / 2, and at start + max_size
\* otherwise; every emitted chunk has 1 to max_size characters.
C22_SnapsFromMidpoint ==
    /\ \A k \in 1..chunker.iterations :
        LET document == chunker.document
            start == chunker.spans[k].start
            end == chunker.spans[k].end
            edge == start + chunker.size
            Late(q) == /\ DotInWindow(document, start, edge, q)
                       /\ 2 * q >= 2 * start + chunker.size
        IN  start >= 0 =>
                IF edge < Len(document) /\ \E q \in 0..(Len(document) - 1) : Late(q)
                THEN /\ Late(end - 1)
                     /\ \A q \in end..(edge - 1) : ~DotInWindow(document, start, edge, q)
                ELSE end = edge
    /\ ChunkLengthsBounded

\* C22: a window whose right edge start + max_size lies before the end of
\* the document ends at p + 1 when p > start + max_size // 2, p being the
\* position of the last '.' in document[start:start + max_size], or -1 when
\* there is none; otherwise it ends at start + max_size; every emitted
\* chunk has 1 to max_size characters.
C22_SnapsPastMidpoint ==
    /\ \A k \in 1..chunker.iterations :
        LET document == chunker.document
            start == chunker.spans[k].start
            end == chunker.spans[k].end
            edge == start + chunker.size
            IsLast(p) ==
                /\ \/ p = -1 /\ \A q \in 0..(Len(document) - 1) :
                                   ~DotInWindow(document, start, edge, q)
                   \/ DotInWindow(document, start, edge, p)
                /\ \A q \in (p + 1)..(Len(document) - 1) :
                    ~DotInWindow(document, start, edge, q)
        IN  \A p \in -1..(Len(document) - 1) :
                IsLast(p) =>
                    end = IF edge < Len(document) /\ p > start + (chunker.size \div 2)
                          THEN p + 1
                          ELSE edge
    /\ ChunkLengthsBounded

\* The windowed path has returned after one window was cut just after a '.'
\* past its midpoint and another, with its last '.' exactly at the midpoint,
\* was left at its full size.
C22_Witness ==
    /\ chunker.pc = "done"
    /\ chunker.size % 2 = 0
    /\ \E k \in 1..chunker.iterations :
        LET start == chunker.spans[k].start
            edge == start + chunker.size
        IN  /\ edge < Len(chunker.document)
            /\ chunker.spans[k].end - 1 > start + (chunker.size \div 2)
            /\ DotInWindow(chunker.document, start, edge, chunker.spans[k].end - 1)
    /\ \E k \in 1..chunker.iterations :
        LET start == chunker.spans[k].start
            edge == start + chunker.size
        IN  /\ chunker.spans[k].end = edge
            /\ edge < Len(chunker.document)
            /\ DotInWindow(chunker.document, start, edge, start + (chunker.size \div 2))
            /\ \A q \in (start + (chunker.size \div 2) + 1)..(edge - 1) :
                ~DotInWindow(chunker.document, start, edge, q)

\* The slots of the store that id_map maps to record r.
OwnSlots(r) == {s \in Slots(index) : s \in DOMAIN id_map /\ id_map[s] = r}

C24_RemoveTouchesOnlyX ==
    [][resp'.op = "remove" =>
        LET r == resp'.id IN
        /\ resp'.status = "ok"
        /\ DOMAIN metadata' = DOMAIN metadata \ {r}
        /\ \A k \in DOMAIN metadata' : metadata'[k] = metadata[k]
        /\ DOMAIN id_map' = {s \in DOMAIN id_map : id_map[s] # r}
        /\ \A s \in DOMAIN id_map' : id_map'[s] = id_map[s]
        /\ index' = index
        /\ ntotal(index') = ntotal(index)
        /\ file_index' = file_index
        /\ file_map' = file_map
        /\ (r \notin DOMAIN metadata /\ \A s \in DOMAIN id_map : id_map[s] # r) =>
            id_map' = id_map /\ metadata' = metadata]_vars

\* remove_experience has just removed a record whose vector is still in the
\* store and whose entries are still in the persisted id_map file, while
\* another record is still indexed.
C24_Witness ==
    /\ resp.op = "remove" /\ resp.status = "ok"
    /\ resp.id \notin DOMAIN metadata
    /\ \E s \in Slots(index) : index.vecs[s + 1].of = resp.id /\ s \notin DOMAIN id_map
    /\ file_map.st = "ok" /\ resp.id \in DOMAIN file_map.metadata
    /\ \E o \in DOMAIN metadata : o # resp.id /\ OwnSlots(o) # {}

\* C25: find_similar(X) for a record that is not indexed (never added, or
\* removed) fails with the not-found error and returns nothing; for an
\* indexed X it returns at most top_k distinct records, never X itself and
\* never a removed record.
C25_SimilarLookup ==
    resp.op = "similar" =>
        /\ (resp.id \notin DOMAIN metadata \/ resp.id \in resp.tomb) =>
            resp.status = "not_in_index" /\ resp.sources = <<>>
        /\ resp.status = "ok" =>
            /\ Len(resp.sources) <= resp.top_k
            /\ \A i, j \in DOMAIN resp.sources :
                resp.sources[i].id = resp.sources[j].id => i = j
            /\ \A i \in DOMAIN resp.sources :
                /\ resp.sources[i].id # resp.id
                /\ resp.sources[i].id \notin resp.tomb

\* Request t awaits an embedding from the worker pool, or computes one on
\* the thread of the event loop.
EmbeddingInProgress(t) == tasks[t].pc \in {"embed", "on_loop"}

\* C26: no request computes its embedding on the event loop: while the
\* embedding of one request is in progress, the loop is free to resume any
\* other query that is pending.
C26_EmbeddingOffLoop ==
    \A t, u \in Requests :
        (/\ t # u
         /\ EmbeddingInProgress(t)
         /\ tasks[u].op = "query" /\ tasks[u].pc = "embed") =>
            Runs(u)

\* The rows the add_experience calls of reindex_all u have still to add.
StillToAdd(u) ==
    IF tasks[u].op = "reindex" /\ tasks[u].pc = "embed"
    THEN {[id |-> tasks[u].id, ver |-> tasks[u].ver]}
             \cup {tasks[u].todo[i] : i \in DOMAIN tasks[u].todo}
    ELSE {}

\* C27: a query that searches while a reindex_all is in progress does not
\* miss a record because of the rebuild: a record the same query found in
\* the index before the rebuild, which the rebuild has fetched unchanged from
\* the source of truth and adds again, is among its sources.
C27_QuerySeesWholeIndex ==
    (/\ resp.op = "query" /\ resp.status = "ok"
     /\ resp.company = None /\ resp.year = NoneInt /\ resp.top_k = MaxTopK) =>
        \A u \in Requests :
            \A row \in tasks[u].matched \cap StillToAdd(u) :
                row.id \in seen_experiences(resp.sources)

\* C28: in every state the interleavings of add_experience,
\* remove_experience and reindex_all reach from a consistent index, the
\* records id_map maps slots to are exactly the keys of metadata, and every
\* key of id_map is below the slot count of the store.
C28_IdMapMatchesMetadata ==
    ~hist.recovering =>
        /\ {id_map[s] : s \in DOMAIN id_map} = DOMAIN metadata
        /\ \A s \in DOMAIN id_map : s < ntotal(index)

\* An add_experience has just appended a record while the store holds the
\* unmapped slot of a record removed earlier, and two records are indexed.
C28_Witness ==
    /\ resp.op = "add" /\ resp.status = "ok"
    /\ ~hist.recovering
    /\ \E s \in Slots(index) : s \notin DOMAIN id_map
    /\ Cardinality(DOMAIN metadata) = 2

\* C29: when add_experience, remove_experience or reindex_all has completed,
\* the persisted files hold the store, the id_map and the metadata that are
\* in memory.
C29_FilesEqualMemory ==
    (resp.op \in {"add", "remove", "reindex"} /\ resp.status = "ok") =>
        /\ file_index = WriteIndex(index)
        /\ file_map = JsonDump(id_map, metadata)

=============================================================================
